---- MODULE Spec2Model ----
(***************************************************************************)
(* Model of handleTransaction (src/src/rule-903.ts): the surge rule for a  *)
(* creditor account.  One invocation is a sequential process with two      *)
(* suspension points (the two awaited queries).  The query collaborator    *)
(* (databaseManager._pseudonymsDb) is the environment: it answers a        *)
(* pending query with a value or rejects it (timeout).                     *)
(*                                                                         *)
(* JavaScript numbers are modelled as exact fractions n/d with d > 0, plus *)
(* NaN and Infinity; the values used are small non-negative integers and   *)
(* quotients of them.                                                      *)
(***************************************************************************)
EXTENDS Integers, Sequences, FiniteSets, TLC

\* ---------------------------------------------------------------- bounds
MaxCount == 2
MaxRange == 2
MaxMultiplier == 3

\* ------------------------------------------------------ program constants
DefaultBaselineFactor == 5
DefaultSurgeThresholdMultiplier == 2

AcceptedStatus == "ACCC"
ExitSentinel == ".x00"

ErrNone == "none"
ErrBands == "Invalid config provided - bands not provided or empty"
ErrExitConditions == "Invalid config provided - exitConditions not provided"
ErrParameters == "Invalid config provided - parameters not provided"
ErrMaxQueryRange == "Invalid config provided - maxQueryRange parameter not provided"
ErrDbtrAcctId == "Data Cache does not have required dbtrAcctId"
ErrNoExitCondition == "Unsuccessful transaction and no exit condition in config"
ErrBaselineIrretrievable == "Data error: irretrievable baseline transaction history or no transactions found."
ErrBaselineType == "Data error: invalid baseline count type or null value."
ErrCurrentIrretrievable == "Data error: irretrievable transaction history"
ErrCurrentType == "Data error: query result type mismatch - expected a number"
\* the rejection of an awaited query promise, propagated unchanged by await
ErrQueryRejected == "query rejected by collaborator"

\* ------------------------------------------------------- JavaScript values
JSNum(k) == [t |-> "number", n |-> k, d |-> 1]
JSNaN == [t |-> "nan", n |-> 0, d |-> 1]
JSInfinity == [t |-> "infinity", n |-> 0, d |-> 1]
JSNull == [t |-> "null", n |-> 0, d |-> 1]
JSUndefined == [t |-> "undefined", n |-> 0, d |-> 1]
JSString == [t |-> "string", n |-> 0, d |-> 1]

\* an optional numeric configuration field
Absent == [has |-> FALSE, v |-> 0]
Some(k) == [has |-> TRUE, v |-> k]

\* !x for an optional number: undefined and 0 are falsy
Truthy(x) == x.has /\ x.v # 0

\* typeof x
TypeOf(x) ==
  CASE x.t \in {"number", "nan", "infinity"} -> "number"
    [] x.t = "null" -> "object"
    [] x.t = "undefined" -> "undefined"
    [] OTHER -> "string"

\* the numeric coercion the operator / applies to its left operand
ToNumber(x) ==
  CASE x.t = "number" -> x
    [] x.t = "null" -> JSNum(0)
    [] OTHER -> JSNaN

\* greatest common divisor of two naturals
RECURSIVE GCD(_, _)
GCD(a, b) == IF b = 0 THEN a ELSE GCD(b, a % b)

\* the number n/d (d > 0) in lowest terms: one representation per value
Fraction(n, d) ==
  LET g == GCD(IF n < 0 THEN 0 - n ELSE n, d)
  IN [t |-> "number", n |-> n \div g, d |-> d \div g]

\* a / b for numbers a >= 0, b >= 0; x/0 is Infinity and 0/0 is NaN
JSDiv(a, b) ==
  IF a.t # "number" \/ b.t # "number" THEN (IF a.t = "number" /\ b.t = "infinity"
                                             THEN JSNum(0) ELSE JSNaN)
  ELSE IF b.n = 0 THEN (IF a.n = 0 THEN JSNaN ELSE JSInfinity)
  ELSE Fraction(a.n * b.d, a.d * b.n)

\* a * b for numbers a >= 0, b > 0
JSMul(a, b) ==
  IF a.t = "nan" \/ b.t = "nan" THEN JSNaN
  ELSE IF a.t = "infinity" \/ b.t = "infinity" THEN JSInfinity
  ELSE Fraction(a.n * b.n, a.d * b.d)

\* a > b for a finite number a; any comparison with NaN is false
JSGreater(a, b) ==
  /\ a.t = "number"
  /\ b.t = "number"
  /\ a.n * b.d > b.n * a.d

\* ------------------------------------------------------------ input space
RangeValues == (1..MaxRange) \cup {3600}
BaselineRangeValues == (1..MaxRange) \cup {5, 18000}
CountValues == (0..MaxCount) \cup {5, 15, 25, 50}

ExitMain == [subRuleRef |-> ".x00", reason |-> "Unsuccessful"]
ExitAlt == [subRuleRef |-> ".x00", reason |-> "Unsuccessful (second)"]
ExitOther == [subRuleRef |-> ".x01", reason |-> "Other exit"]

ExitConditionInputs ==
  { [has |-> FALSE, list |-> << >>],
    [has |-> TRUE, list |-> << >>],
    [has |-> TRUE, list |-> <<ExitMain>>],
    [has |-> TRUE, list |-> <<ExitOther>>],
    [has |-> TRUE, list |-> <<ExitOther, ExitMain>>],
    [has |-> TRUE, list |-> <<ExitAlt, ExitMain>>] }

\* bands: absent, empty, or a non-empty list (only its length is read)
BandInputs == { [has |-> FALSE, length |-> 0], [has |-> TRUE, length |-> 0],
                [has |-> TRUE, length |-> 2] }

ParameterInputs ==
  [ has : {TRUE},
    maxQueryRange : {Absent, Some(0)} \cup {Some(k) : k \in RangeValues},
    baselineQueryRange : {Absent, Some(0)} \cup {Some(k) : k \in BaselineRangeValues},
    surgeThresholdMultiplier : {Absent, Some(0)} \cup {Some(k) : k \in 1..MaxMultiplier} ]
  \cup
  { [has |-> FALSE, maxQueryRange |-> Absent, baselineQueryRange |-> Absent,
     surgeThresholdMultiplier |-> Absent] }

RuleConfigInputs ==
  [ bands : BandInputs, exitConditions : ExitConditionInputs, parameters : ParameterInputs ]

RuleRequestInputs == [ TxSts : {"ACCC", "RJCT"}, dbtrAcctId : BOOLEAN ]

RuleResultInputs ==
  { [id |-> "903@1.0.0", cfg |-> "1.0.0", subRuleRef |-> ".00", reason |-> ""],
    [id |-> "903@1.0.0", cfg |-> "1.0.0", subRuleRef |-> ".err", reason |-> "stale"] }

NoResult == [has |-> FALSE, val |-> [id |-> "", cfg |-> "", subRuleRef |-> "", reason |-> ""]]
Returned(r) == [has |-> TRUE, val |-> r]

NoExit == [has |-> FALSE, val |-> [subRuleRef |-> "", reason |-> ""]]

\* what the collaborator can answer
JSElements == {JSNum(k) : k \in CountValues} \cup {JSNull, JSUndefined, JSString}

NoReply == [kind |-> "none", isArray |-> FALSE, rows |-> << >>, batches |-> << >>]
Rejection == [kind |-> "rejected", isArray |-> FALSE, rows |-> << >>, batches |-> << >>]

\* baseline path: batches.all() cast to number[]; null, [], [x] or [x, y]
BaselineReplies ==
  { [kind |-> "value", isArray |-> FALSE, rows |-> << >>, batches |-> << >>],
    [kind |-> "value", isArray |-> TRUE, rows |-> << >>, batches |-> << >>],
    [kind |-> "value", isArray |-> TRUE, rows |-> <<JSNum(1), JSNum(50)>>, batches |-> << >>] }
  \cup
  { [kind |-> "value", isArray |-> TRUE, rows |-> <<x>>, batches |-> << >>] : x \in JSElements }

\* current path: batches.all() is a list of batches, each a list of rows
CurrentReplies ==
  { [kind |-> "value", isArray |-> TRUE, rows |-> << >>, batches |-> << >>],
    [kind |-> "value", isArray |-> TRUE, rows |-> << >>, batches |-> << << >> >>],
    [kind |-> "value", isArray |-> TRUE, rows |-> << >>, batches |-> << <<JSNum(1), JSNum(50)>> >>] }
  \cup
  { [kind |-> "value", isArray |-> TRUE, rows |-> << >>, batches |-> << <<x>> >>] : x \in JSElements }

\* ------------------------------------------------------------------ state
VARIABLES
  req, ruleConfig, ruleRes,      \* the arguments of the invocation
  pc,                            \* position in handleTransaction
  error,                         \* the error thrown, ErrNone if none
  result,                        \* the value returned
  UnsuccessfulTransaction,       \* local: the .x00 exit condition found
  maxQueryRange,                 \* local
  baselineQueryRange,            \* local
  pending,                       \* the query in flight: "none", "baseline", "current"
  reply,                         \* the collaborator's answer to the pending query
  baselineTransactions,          \* local: the baseline answer
  baselineCount,                 \* local
  numberOfRecentTransactions,    \* local: the current-window answer
  count,                         \* local
  queries,                       \* history: the queries issued
  resolverCalls,                 \* history: the calls of determineOutcome
  events,                        \* history: the steps taken
  log,                           \* loggerService.trace messages
  timedOut                       \* history: a query was rejected by timeout

vars == << req, ruleConfig, ruleRes, pc, error, result, UnsuccessfulTransaction,
           maxQueryRange, baselineQueryRange, pending, reply, baselineTransactions,
           baselineCount, numberOfRecentTransactions, count, queries, resolverCalls,
           events, log, timedOut >>

inputs == << req, ruleConfig, ruleRes >>
locals == << UnsuccessfulTransaction, maxQueryRange, baselineQueryRange,
             baselineTransactions, baselineCount, numberOfRecentTransactions, count >>

Init ==
  /\ req \in RuleRequestInputs
  /\ ruleConfig \in RuleConfigInputs
  /\ ruleRes \in RuleResultInputs
  /\ pc = "start"
  /\ error = ErrNone
  /\ result = NoResult
  /\ UnsuccessfulTransaction = NoExit
  /\ maxQueryRange = 0
  /\ baselineQueryRange = 0
  /\ pending = "none"
  /\ reply = NoReply
  /\ baselineTransactions = NoReply
  /\ baselineCount = JSUndefined
  /\ numberOfRecentTransactions = NoReply
  /\ count = JSUndefined
  /\ queries = << >>
  /\ resolverCalls = << >>
  /\ events = << >>
  /\ log = << >>
  /\ timedOut = FALSE

\* variant: the dbtrAcctId clause placed first
ValidationError_DbtrFirst(cfg, rq) ==
  IF ~rq.dbtrAcctId THEN ErrDbtrAcctId
  ELSE IF ~cfg.bands.has \/ cfg.bands.length = 0 THEN ErrBands
  ELSE IF ~cfg.exitConditions.has THEN ErrExitConditions
  ELSE IF ~cfg.parameters.has THEN ErrParameters
  ELSE IF ~Truthy(cfg.parameters.maxQueryRange) THEN ErrMaxQueryRange
  ELSE ErrNone

\* ---------------------------------------------------------------- helpers
\* the guard clauses, in the order of the code; ErrNone when all pass
ValidationError(cfg, rq) ==
  IF ~cfg.bands.has \/ cfg.bands.length = 0 THEN ErrBands
  ELSE IF ~cfg.exitConditions.has THEN ErrExitConditions
  ELSE IF ~cfg.parameters.has THEN ErrParameters
  ELSE IF ~Truthy(cfg.parameters.maxQueryRange) THEN ErrMaxQueryRange
  ELSE IF ~rq.dbtrAcctId THEN ErrDbtrAcctId
  ELSE ErrNone

\* variant: the last match instead of the first
FindExitCondition_Last(list) ==
  LET hits == {i \in 1..Len(list) : list[i].subRuleRef = ExitSentinel}
  IN IF hits = {} THEN NoExit
     ELSE [has |-> TRUE, val |-> list[CHOOSE i \in hits : \A j \in hits : i >= j]]

\* exitConditions.find(b => b.subRuleRef === '.x00'): the first match
FindExitCondition(list) ==
  LET hits == {i \in 1..Len(list) : list[i].subRuleRef = ExitSentinel}
  IN IF hits = {} THEN NoExit
     ELSE [has |-> TRUE, val |-> list[CHOOSE i \in hits : \A j \in hits : i <= j]]

\* variant: the status test dropped
IsUnsuccessful_Always(rq) == TRUE

\* TxSts !== 'ACCC'
IsUnsuccessful(rq) == rq.TxSts # AcceptedStatus

\* { ...ruleRes, reason: ..., subRuleRef: ... }
MergeExit(res, ec) == [res EXCEPT !.reason = ec.reason, !.subRuleRef = ec.subRuleRef]

\* variant: ?? instead of ||, so that 0 is not replaced by the default
BaselineQueryRangeOf_Nullish(params) ==
  IF params.baselineQueryRange.has THEN params.baselineQueryRange.v
  ELSE params.maxQueryRange.v * DefaultBaselineFactor

\* parameters.baselineQueryRange || maxQueryRange * 5
BaselineQueryRangeOf(params) ==
  IF Truthy(params.baselineQueryRange) THEN params.baselineQueryRange.v
  ELSE params.maxQueryRange.v * DefaultBaselineFactor

\* parameters.surgeThresholdMultiplier || 2
SurgeThresholdMultiplierOf(params) ==
  IF Truthy(params.surgeThresholdMultiplier) THEN params.surgeThresholdMultiplier.v
  ELSE DefaultSurgeThresholdMultiplier

\* variant: the length test dropped
BaselineIrretrievable_NoLengthCheck(bt) == ~bt.isArray

\* !Array.isArray(baselineTransactions) || baselineTransactions.length === 0
BaselineIrretrievable(bt) == ~bt.isArray \/ Len(bt.rows) = 0

\* baselineTransactions[0]
FirstRow(bt) == IF Len(bt.rows) = 0 THEN JSUndefined ELSE bt.rows[1]

\* baselineTransactions[0] / (baselineQueryRange / maxQueryRange)
BaselineCountOf(bt, bRange, mRange) ==
  JSDiv(ToNumber(FirstRow(bt)), JSDiv(JSNum(bRange), JSNum(mRange)))

\* baselineCount == null || typeof baselineCount !== 'number'
BaselineCountInvalid(bc) == bc.t \in {"null", "undefined"} \/ TypeOf(bc) # "number"

\* unwrap(batches): the first row of the first batch, else undefined
Unwrap(batches) ==
  IF Len(batches) # 0 /\ Len(batches[1]) # 0 THEN batches[1][1] ELSE JSUndefined

\* variant: the typeof test dropped
CountError_NoTypeCheck(c) ==
  IF c.t \in {"null", "undefined"} THEN ErrCurrentIrretrievable
  ELSE ErrNone

\* the two checks on count, in the order of the code
CountError(c) ==
  IF c.t \in {"null", "undefined"} THEN ErrCurrentIrretrievable
  ELSE IF TypeOf(c) # "number" THEN ErrCurrentType
  ELSE ErrNone

\* variant: >= instead of >
IsSurge_GreaterOrEqual(c, bc, mult) ==
  LET b == JSMul(bc, JSNum(mult))
  IN c.t = "number" /\ b.t = "number" /\ c.n * b.d >= b.n * c.d

\* count > baselineCount * surgeThresholdMultiplier
IsSurge(c, bc, mult) == JSGreater(c, JSMul(bc, JSNum(mult)))

\* the outcome resolver passed in by the caller: a pure function of its
\* arguments that fills reason and subRuleRef
DetermineOutcome(value, cfg, res) ==
  [res EXCEPT !.subRuleRef = IF value = 1 THEN ".02" ELSE ".01",
              !.reason = IF value = 1 THEN "surge" ELSE "no surge"]

\* an await resumes once its promise is settled: fulfilled or rejected
Settled_FulfilledOnly(r) == r.kind = "value"

Settled(r) == r.kind # "none"

Throw(e) ==
  /\ pc' = "failed"
  /\ error' = e

\* ---------------------------------------------------------------- actions
\* lines 15-27: entry trace and guard clauses
Validate ==
  /\ pc = "start"
  /\ log' = Append(log, "Start - handle transaction")
  /\ events' = Append(events, "validate")
  /\ IF ValidationError(ruleConfig, req) # ErrNone
       THEN Throw(ValidationError(ruleConfig, req))
       ELSE pc' = "earlyExit" /\ error' = error
  /\ UNCHANGED << inputs, locals, result, pending, reply, queries, resolverCalls, timedOut >>

\* lines 31-43: early exit for a transaction that was not accepted
EarlyExit ==
  /\ pc = "earlyExit"
  /\ log' = Append(log, "Step 1 - Early exit conditions")
  /\ events' = Append(events, "earlyExit")
  /\ UnsuccessfulTransaction' = FindExitCondition(ruleConfig.exitConditions.list)
  /\ IF IsUnsuccessful(req)
       THEN IF ~UnsuccessfulTransaction'.has
              THEN Throw(ErrNoExitCondition) /\ result' = result
              ELSE /\ pc' = "returned"
                   /\ error' = error
                   /\ result' = Returned(MergeExit(ruleRes, UnsuccessfulTransaction'.val))
       ELSE pc' = "querySetup" /\ error' = error /\ result' = result
  /\ UNCHANGED << inputs, maxQueryRange, baselineQueryRange, baselineTransactions,
                  baselineCount, numberOfRecentTransactions, count, pending, reply,
                  queries, resolverCalls, timedOut >>

\* lines 47-70: window setup and the baseline query, up to its await
IssueBaselineQuery ==
  /\ pc = "querySetup"
  /\ log' = log \o << "Step 2 - Query setup for creditor",
                      "Step 3 - Baseline query setup for creditor",
                      "Step 3 - Baseline query setup for creditor" >>
  /\ maxQueryRange' = ruleConfig.parameters.maxQueryRange.v
  /\ baselineQueryRange' = BaselineQueryRangeOf(ruleConfig.parameters)
  /\ queries' = Append(queries, [window |-> "baseline", range |-> baselineQueryRange',
                                 notAfterNow |-> FALSE])
  /\ events' = Append(events, "baselineQuery")
  /\ pending' = "baseline"
  /\ reply' = NoReply
  /\ pc' = "awaitBaseline"
  /\ UNCHANGED << inputs, error, result, UnsuccessfulTransaction, baselineTransactions,
                  baselineCount, numberOfRecentTransactions, count, resolverCalls, timedOut >>

\* the collaborator answers the pending query
DbRespond ==
  /\ pending # "none"
  /\ reply.kind = "none"
  /\ reply' \in (IF pending = "baseline" THEN BaselineReplies ELSE CurrentReplies)
  /\ UNCHANGED << inputs, locals, pc, error, result, pending, queries, resolverCalls,
                  events, log, timedOut >>

\* the collaborator's timeout expires: the awaited promise is rejected
DbTimeout ==
  /\ pending # "none"
  /\ reply.kind = "none"
  /\ reply' = Rejection
  /\ timedOut' = TRUE
  /\ UNCHANGED << inputs, locals, pc, error, result, pending, queries, resolverCalls,
                  events, log >>

\* lines 70-81: the baseline await resumes
BaselineResume ==
  /\ pc = "awaitBaseline"
  /\ Settled(reply)
  /\ pending' = "none"
  /\ reply' = NoReply
  /\ IF reply.kind = "rejected"
       THEN /\ Throw(ErrQueryRejected)
            /\ UNCHANGED << baselineTransactions, baselineCount >>
       ELSE /\ baselineTransactions' = reply
            /\ IF BaselineIrretrievable(reply)
                 THEN Throw(ErrBaselineIrretrievable) /\ baselineCount' = baselineCount
                 ELSE /\ baselineCount' = BaselineCountOf(reply, baselineQueryRange, maxQueryRange)
                      /\ IF BaselineCountInvalid(baselineCount')
                           THEN Throw(ErrBaselineType)
                           ELSE pc' = "currentQuery" /\ error' = error
  /\ UNCHANGED << inputs, result, UnsuccessfulTransaction, maxQueryRange, baselineQueryRange,
                  numberOfRecentTransactions, count, queries, resolverCalls, events, log,
                  timedOut >>

\* lines 83-96: the current-window query, up to its await
IssueCurrentQuery ==
  /\ pc = "currentQuery"
  /\ log' = Append(log, "Step 4 - Query for current transactions for creditor")
  /\ queries' = Append(queries, [window |-> "current", range |-> maxQueryRange,
                                 notAfterNow |-> TRUE])
  /\ events' = Append(events, "currentQuery")
  /\ pending' = "current"
  /\ reply' = NoReply
  /\ pc' = "awaitCurrent"
  /\ UNCHANGED << inputs, locals, error, result, resolverCalls, timedOut >>

\* lines 96-105: the current-window await resumes
CurrentResume ==
  /\ pc = "awaitCurrent"
  /\ Settled(reply)
  /\ pending' = "none"
  /\ reply' = NoReply
  /\ IF reply.kind = "rejected"
       THEN /\ Throw(ErrQueryRejected)
            /\ UNCHANGED << numberOfRecentTransactions, count >>
       ELSE /\ numberOfRecentTransactions' = reply
            /\ count' = Unwrap(reply.batches)
            /\ IF CountError(count') # ErrNone
                 THEN Throw(CountError(count'))
                 ELSE pc' = "decide" /\ error' = error
  /\ UNCHANGED << inputs, result, UnsuccessfulTransaction, maxQueryRange, baselineQueryRange,
                  baselineTransactions, baselineCount, queries, resolverCalls, events, log,
                  timedOut >>

\* lines 107-118: the decision and the call of the outcome resolver
Decide ==
  /\ pc = "decide"
  /\ log' = Append(log, "End - handle transaction")
  /\ events' = events \o << "decision", "outcome" >>
  /\ LET isSurge == IsSurge(count, baselineCount,
                            SurgeThresholdMultiplierOf(ruleConfig.parameters))
         score == IF isSurge THEN 1 ELSE 0
     IN /\ resolverCalls' = Append(resolverCalls,
                                   [value |-> score, ruleConfig |-> ruleConfig,
                                    ruleResult |-> ruleRes])
        /\ result' = Returned(DetermineOutcome(score, ruleConfig, ruleRes))
  /\ pc' = "returned"
  /\ UNCHANGED << inputs, locals, error, pending, reply, queries, timedOut >>

Next ==
  \/ Validate
  \/ EarlyExit
  \/ IssueBaselineQuery
  \/ DbRespond
  \/ DbTimeout
  \/ BaselineResume
  \/ IssueCurrentQuery
  \/ CurrentResume
  \/ Decide

Spec == Init /\ [][Next]_vars

\* the event loop resumes a settled await
FairSpec == Spec /\ WF_vars(BaselineResume) /\ WF_vars(CurrentResume)

TypeOK ==
  /\ pc \in {"start", "earlyExit", "querySetup", "awaitBaseline", "currentQuery",
             "awaitCurrent", "decide", "returned", "failed"}
  /\ pending \in {"none", "baseline", "current"}
  /\ Len(queries) <= 2

\* ----------------------------------------------------------------- claims
\* C1: whatever the status code, when one of the five checks (bands present
\* and non-empty, exitConditions present, parameters present, maxQueryRange
\* present and non-zero, dbtrAcctId present) is violated, the invocation
\* fails with the error of the first violated check in that order; no query
\* is issued, the resolver is not invoked and nothing is returned.
C1_FirstViolationFails ==
  LET p == ruleConfig.parameters
      holds == << ruleConfig.bands.has /\ ruleConfig.bands.length > 0,
                  ruleConfig.exitConditions.has,
                  p.has,
                  p.has /\ p.maxQueryRange.has /\ p.maxQueryRange.v # 0,
                  req.dbtrAcctId >>
      errs == << ErrBands, ErrExitConditions, ErrParameters, ErrMaxQueryRange, ErrDbtrAcctId >>
      violated == {i \in 1..5 : ~holds[i]}
      first == CHOOSE i \in violated : \A j \in violated : i <= j
  IN (pc # "start" /\ violated # {}) =>
       /\ pc = "failed"
       /\ error = errs[first]
       /\ queries = << >>
       /\ resolverCalls = << >>
       /\ ~result.has

\* C1 witness: a rejected transaction fails on the fifth check alone
C1_Witness ==
  /\ pc = "failed"
  /\ error = ErrDbtrAcctId
  /\ req.TxSts = "RJCT"
  /\ Truthy(ruleConfig.parameters.maxQueryRange)

\* C2: a valid invocation with a status other than ACCC and a .x00 exit
\* condition returns the partial result with reason and subRuleRef replaced
\* by those of the (first) .x00 exit condition, every other field unchanged;
\* no query is issued and the resolver is not invoked.
C2_EarlyExitResult ==
  LET list == ruleConfig.exitConditions.list
      hits == {i \in 1..Len(list) : list[i].subRuleRef = ".x00"}
      ec == list[CHOOSE i \in hits : \A j \in hits : i <= j]
  IN (pc \notin {"start", "earlyExit"} /\ error = ErrNone /\ req.TxSts # "ACCC" /\ hits # {}) =>
       /\ pc = "returned"
       /\ result.has
       /\ result.val.reason = ec.reason
       /\ result.val.subRuleRef = ec.subRuleRef
       /\ DOMAIN result.val = DOMAIN ruleRes
       /\ \A f \in DOMAIN ruleRes \ {"reason", "subRuleRef"} : result.val[f] = ruleRes[f]
       /\ queries = << >>
       /\ resolverCalls = << >>

\* C2 witness: an early exit over a partial result that carried a reason,
\* with two .x00 entries in the configuration
C2_Witness ==
  /\ pc = "returned"
  /\ req.TxSts = "RJCT"
  /\ ruleRes.reason = "stale"
  /\ ruleConfig.exitConditions.list = <<ExitAlt, ExitMain>>
  /\ result.val.reason = "Unsuccessful (second)"

\* C3: a valid invocation with a status other than ACCC and no .x00 exit
\* condition fails: nothing is returned, no query is issued, the resolver is
\* not invoked.  With status ACCC the missing .x00 entry never is the error.
C3_MissingExitCondition ==
  LET list == ruleConfig.exitConditions.list
      noExit == \A i \in 1..Len(list) : list[i].subRuleRef # ".x00"
      valid == pc \notin {"start", "earlyExit"} /\ error \notin
                 {ErrBands, ErrExitConditions, ErrParameters, ErrMaxQueryRange, ErrDbtrAcctId}
  IN /\ (valid /\ req.TxSts # "ACCC" /\ noExit) =>
          /\ pc = "failed"
          /\ error = ErrNoExitCondition
          /\ ~result.has
          /\ queries = << >>
          /\ resolverCalls = << >>
     /\ (valid /\ req.TxSts = "ACCC" /\ noExit) =>
          /\ error # ErrNoExitCondition
          /\ Len(queries) >= 1 \/ pc = "querySetup"

\* C3 witness: the failure on a configuration with exit conditions but no .x00
C3_Witness ==
  /\ pc = "failed"
  /\ error = ErrNoExitCondition
  /\ ruleConfig.exitConditions.list = <<ExitOther>>

\* C4: an invocation that terminates ends in exactly one of: an early-exit
\* result (from the .x00 exit condition, resolver never invoked), a
\* surge-computed result (resolver invoked exactly once, after both queries
\* succeeded), or an error (nothing returned).
C4_ExactlyOneOutcome ==
  LET early == /\ req.TxSts # "ACCC"
               /\ UnsuccessfulTransaction.has
               /\ UnsuccessfulTransaction.val.subRuleRef = ".x00"
               /\ result.val.reason = UnsuccessfulTransaction.val.reason
               /\ result.val.subRuleRef = ".x00"
               /\ resolverCalls = << >>
               /\ queries = << >>
      surge == /\ Len(resolverCalls) = 1
               /\ Len(queries) = 2
               /\ baselineTransactions.kind = "value"
               /\ baselineTransactions.isArray
               /\ Len(baselineTransactions.rows) > 0
               /\ numberOfRecentTransactions.kind = "value"
               /\ count.t = "number"
               /\ result.val = DetermineOutcome(resolverCalls[1].value,
                                                resolverCalls[1].ruleConfig,
                                                resolverCalls[1].ruleResult)
  IN /\ pc = "returned" => (result.has /\ error = ErrNone /\ (early \/ surge) /\ ~(early /\ surge))
     /\ pc = "failed" => (~result.has /\ error # ErrNone /\ resolverCalls = << >>)
     /\ pc \notin {"returned", "failed"} => (~result.has /\ error = ErrNone /\ resolverCalls = << >>)

\* C4 witness: a surge-computed result
C4_Witness ==
  /\ pc = "returned"
  /\ Len(resolverCalls) = 1
  /\ req.TxSts = "ACCC"

\* C5: when both queries return numeric counts, the resolver is invoked with
\* score 1 iff count > baselineCount * multiplier and with 0 otherwise (0 on
\* equality), with the configuration and the partial result as passed in,
\* and its return value is the result.
C5_StrictSurgeDecision ==
  LET p == ruleConfig.parameters
      mult == IF p.surgeThresholdMultiplier.has /\ p.surgeThresholdMultiplier.v # 0
                THEN p.surgeThresholdMultiplier.v ELSE 2
      call == resolverCalls[1]
  IN (pc = "returned" /\ resolverCalls # << >> /\ baselineTransactions.rows[1].t = "number") =>
       /\ count.t = "number"
       /\ baselineCount.t = "number"
       /\ baselineCount.d > 0
       /\ call.value = (IF count.n * baselineCount.d > baselineCount.n * mult * count.d
                          THEN 1 ELSE 0)
       /\ call.ruleConfig = ruleConfig
       /\ call.ruleResult = ruleRes
       /\ result = [has |-> TRUE, val |-> DetermineOutcome(call.value, ruleConfig, ruleRes)]

\* C5 witness: count equals baselineCount * multiplier, not zero, score 0
C5_Witness ==
  /\ pc = "returned"
  /\ resolverCalls # << >>
  /\ baselineCount.t = "number"
  /\ count.t = "number"
  /\ count.n > 0
  /\ count.n * baselineCount.d =
       baselineCount.n * SurgeThresholdMultiplierOf(ruleConfig.parameters) * count.d
  /\ resolverCalls[1].value = 0

\* C6 (as claimed): for either window, an answer that is null, empty, has
\* no row or has a null count makes the invocation fail with the
\* data-availability error of that window, the resolver not invoked; an
\* answer whose count is 0 does not fail for that reason.
C6_UnretrievableFails ==
  LET bt == baselineTransactions
      ct == numberOfRecentTransactions
      nullish(x) == x.t \in {"null", "undefined"}
      baseBad == bt.kind = "value" /\
                   (~bt.isArray \/ Len(bt.rows) = 0 \/ nullish(bt.rows[1]))
      curBad == ct.kind = "value" /\
                  (Len(ct.batches) = 0 \/ Len(ct.batches[1]) = 0 \/ nullish(ct.batches[1][1]))
      baseZero == bt.kind = "value" /\ bt.isArray /\ Len(bt.rows) > 0 /\ bt.rows[1] = JSNum(0)
      curZero == ct.kind = "value" /\ Len(ct.batches) > 0 /\ Len(ct.batches[1]) > 0
                   /\ ct.batches[1][1] = JSNum(0)
  IN /\ baseBad => (pc = "failed" /\ error = ErrBaselineIrretrievable /\ resolverCalls = << >>)
     /\ curBad => (pc = "failed" /\ error = ErrCurrentIrretrievable /\ resolverCalls = << >>)
     /\ baseZero => error \notin {ErrBaselineIrretrievable, ErrBaselineType}
     /\ curZero => (error = ErrNone /\ pc \in {"decide", "returned"})

\* C7: an absent or falsy baselineQueryRange behaves as maxQueryRange * 5
\* (baseline window of that size, baselineCount = raw / 5); an absent or
\* falsy surgeThresholdMultiplier behaves as 2.  With maxQueryRange 3600 and
\* raw baseline 50, count 25 gives score 1 and count 15 gives score 0.
C7_Defaults ==
  LET p == ruleConfig.parameters
      m == p.maxQueryRange.v
      falsy(x) == ~x.has \/ x.v = 0
      b == IF falsy(p.baselineQueryRange) THEN m * 5 ELSE p.baselineQueryRange.v
      mult == IF falsy(p.surgeThresholdMultiplier) THEN 2 ELSE p.surgeThresholdMultiplier.v
      raw == baselineTransactions.rows[1].n
      defaulted == falsy(p.baselineQueryRange) /\ falsy(p.surgeThresholdMultiplier)
  IN /\ queries # << >> =>
          /\ queries[1].window = "baseline"
          /\ queries[1].range = b
     /\ (pc \in {"currentQuery", "awaitCurrent", "decide", "returned"}
           /\ Len(baselineTransactions.rows) > 0
           /\ baselineTransactions.rows[1].t = "number") =>
          /\ baselineCount.t = "number"
          /\ baselineCount.n * b = raw * m * baselineCount.d
          /\ falsy(p.baselineQueryRange) => baselineCount.n * 5 = raw * baselineCount.d
     /\ (pc = "returned" /\ resolverCalls # << >>
           /\ baselineTransactions.rows[1].t = "number") =>
          /\ resolverCalls[1].value = (IF count.n * b > raw * m * mult THEN 1 ELSE 0)
          /\ (defaulted /\ m = 3600 /\ raw = 50 /\ count.n = 25) => resolverCalls[1].value = 1
          /\ (defaulted /\ m = 3600 /\ raw = 50 /\ count.n = 15) => resolverCalls[1].value = 0

\* C7 witness: maxQueryRange 3600, both optional parameters falsy (one absent,
\* one 0), raw baseline 50, current count 25, score 1
C7_Witness ==
  /\ pc = "returned"
  /\ resolverCalls # << >>
  /\ ruleConfig.parameters.maxQueryRange = Some(3600)
  /\ ruleConfig.parameters.baselineQueryRange = Some(0)
  /\ ruleConfig.parameters.surgeThresholdMultiplier = Absent
  /\ baselineTransactions.rows = <<JSNum(50)>>
  /\ queries[1].range = 18000
  /\ count = JSNum(25)
  /\ resolverCalls[1].value = 1

\* C8 (as claimed): when the baseline answer is non-empty and the computed
\* baselineCount is not a well-formed number (NaN), the invocation fails
\* before the current-window query is issued and the resolver is not invoked.
C8_MalformedBaselineFails ==
  (baselineTransactions.kind = "value" /\ baselineTransactions.isArray
     /\ Len(baselineTransactions.rows) > 0 /\ baselineCount.t = "nan") =>
       /\ pc = "failed"
       /\ Len(queries) = 1
       /\ resolverCalls = << >>

\* C9: the steps of an invocation occur in the order validate, early-exit
\* check, baseline query, current-window query, decision, outcome; at most
\* two queries are issued; the baseline query only after validation passed
\* with status ACCC; the current-window query only after a non-empty
\* baseline answer; the resolver only after a numeric current count.
C9_StepOrder ==
  LET order == << "validate", "earlyExit", "baselineQuery", "currentQuery",
                  "decision", "outcome" >>
      p == ruleConfig.parameters
  IN /\ Len(events) <= Len(order)
     /\ \A i \in 1..Len(events) : events[i] = order[i]
     /\ Len(queries) <= 2
     /\ Len(queries) = Cardinality({i \in 1..Len(events) :
                                      events[i] \in {"baselineQuery", "currentQuery"}})
     /\ Len(queries) >= 1 =>
          /\ queries[1].window = "baseline"
          /\ ruleConfig.bands.has /\ ruleConfig.bands.length > 0
          /\ ruleConfig.exitConditions.has
          /\ p.has /\ p.maxQueryRange.has /\ p.maxQueryRange.v # 0
          /\ req.dbtrAcctId
          /\ req.TxSts = "ACCC"
     /\ Len(queries) = 2 =>
          /\ queries[2].window = "current"
          /\ baselineTransactions.kind = "value"
          /\ baselineTransactions.isArray
          /\ Len(baselineTransactions.rows) > 0
     /\ resolverCalls # << >> =>
          /\ Len(resolverCalls) = 1
          /\ Len(queries) = 2
          /\ numberOfRecentTransactions.kind = "value"
          /\ count.t = "number"
          /\ count = numberOfRecentTransactions.batches[1][1]

\* C9 witness: all six steps taken
C9_Witness ==
  /\ Len(events) = 6
  /\ Len(queries) = 2
  /\ pc = "returned"

====
